---------------------------- MODULE Spec2Model ----------------------------
(***************************************************************************)
(* Model of askbot/models/tag.py: the tag registry (get_tags_by_names,     *)
(* separate_unused_tags, tags_match_some_wildcard), the count reconciler   *)
(* (TagQuerySet.update_use_counts, mark_undeleted), the group registry     *)
(* (GroupTagManager.get_or_create) and the suggestion workflow             *)
(* (SuggestedTagManager.create).                                           *)
(*                                                                         *)
(* Strings are sequences of one-character strings, so that prefix tests,   *)
(* case folding and whitespace normalisation are computed, not assumed.    *)
(* Each component has its own specification over the shared tables; the    *)
(* variables a specification does not use stay at their idle values.       *)
(***************************************************************************)
EXTENDS Integers, Sequences, FiniteSets, TLC

VARIABLES
    tag_table,      \* rows of the Tag table (db_table 'tag')
    tag_threads,    \* rows of the Tag<->Thread relation: <<tag id, thread>>
    r_pc, r_names, r_found, r_missing, \* get_tags_by_names: position, argument, results
    r_before,       \* the Tag table as it was when get_tags_by_names was called
    w_pc, w_names, w_wild,   \* tags_match_some_wildcard: position and arguments
    w_left, w_name, w_idx,   \* names not yet iterated, current name, index of the wildcard
    w_sorted,                \* sorted(wildcard_tags), as built for the current name
    w_ret,                   \* its return value
    s_pc, s_tags, s_i,       \* separate_unused_tags: position, argument, loop index
    s_used, s_unused,        \* its two lists
    group_profiles, \* rows of the GroupProfile table: the id of each profile's group_tag
    g_pc, g_raw, g_user,     \* get_or_create, per caller: position and arguments
    g_name, g_tag,           \* its locals group_name (cleaned) and tag
    g_log,                   \* the calls that ended, in the order they ended
    u_pc, u_objs, u_i,       \* update_use_counts: position, the Tag objects given, loop index
    u_runs,                  \* runs started over these objects
    u_failures,              \* runs over these objects that failed
    u_quiet,                 \* no thread association changed since the objects were loaded
    u_undeleted,             \* ids that mark_undeleted restored since the objects were loaded
    u_loaded,                \* the Tag table as it was when the objects were loaded
    u_after,                 \* the Tag table as it was when the last run completed ({}: none did)
    sug_table,      \* rows of the SuggestedTag table, with their users and threads relations
    mails,          \* the notifications mailed to the moderators, in order
    messages,       \* the messages created in users' message sets, in order
    m_pc, m_names, m_user, m_thread,  \* SuggestedTagManager.create: position and arguments
    m_left,                  \* names the loop has not reached yet
    m_created,               \* its list suggested_tags
    m_calls,                 \* calls made so far
    m_mails0,                \* the number of notifications mailed before this call
    m_before                 \* the SuggestedTag table as it was when create was called

regVars == <<tag_table, tag_threads>>
resVars == <<r_pc, r_names, r_found, r_missing, r_before>>
wcVars == <<w_pc, w_names, w_wild, w_left, w_name, w_idx, w_sorted, w_ret>>
sepVars == <<s_pc, s_tags, s_i, s_used, s_unused>>
grpVars == <<group_profiles, g_pc, g_raw, g_user, g_name, g_tag, g_log>>
uucVars == <<u_pc, u_objs, u_i, u_runs, u_failures, u_quiet, u_undeleted, u_loaded, u_after>>
sugVars == <<sug_table, mails, messages, m_pc, m_names, m_user, m_thread, m_left,
             m_created, m_calls, m_mails0, m_before>>
vars == <<regVars, resVars, wcVars, sepVars, grpVars, uucVars, sugVars>>

(***************************************************************************)
(* Bounds of the model.                                                    *)
(***************************************************************************)
MaxNameLen == 2     \* longest tag name drawn for the registry
MaxTags == 2        \* most rows drawn for the Tag table
MaxReq == 2         \* most names requested in one get_tags_by_names call
MaxWcLen == 2       \* longest name and longest wildcard prefix drawn for the matcher
MaxWild == 2        \* most wildcards given to tags_match_some_wildcard
MaxSepLen == 3      \* longest list given to separate_unused_tags
MaxCount == 2       \* largest used_count drawn for it
MaxCalls == 3       \* most get_or_create calls in one run
MaxRuns == 2        \* most runs of update_use_counts over one batch
MaxSugCalls == 2    \* most calls of SuggestedTagManager.create in one run

(***************************************************************************)
(* Values.                                                                 *)
(***************************************************************************)
None == "None"
Users == {"u1", "u2"}
Threads == {"th1", "th2"}

\* All strings over the characters cs of length lo..hi.
Strings(cs, lo, hi) == UNION {[1..k -> cs] : k \in lo..hi}

\* Subsets of S with at most n elements.
SubsetsUpTo(S, n) == {T \in SUBSET S : Cardinality(T) <= n}

\* str.startswith(prefix)
StartsWith(str, prefix) ==
    /\ Len(prefix) <= Len(str)
    /\ \A i \in 1..Len(prefix) : str[i] = prefix[i]

(***************************************************************************)
(* The Tag model: a new row has used_count 0 and no deletion marks.        *)
(***************************************************************************)
Tag(id, name, user) ==
    [id |-> id, name |-> name, created_by |-> user, used_count |-> 0,
     deleted |-> FALSE, deleted_at |-> None, deleted_by |-> None]

\* Tag.name is unique; ids are the primary key.
TagTableOK(table) ==
    \A t1, t2 \in table : (t1.name = t2.name \/ t1.id = t2.id) => t1 = t2

\* A Tag table holding one fresh row per name of the set names.
TableOfNames(names) ==
    LET n == Cardinality(names)
        order == CHOOSE f \in [1..n -> names] : \A i, j \in 1..n : f[i] = f[j] => i = j
    IN {Tag(i, order[i], "u1") : i \in 1..n}

(***************************************************************************)
(* get_tags_by_names                                                       *)
(***************************************************************************)
RegChars == {"a", "A"}
RegNames == Strings(RegChars, 1, MaxNameLen)

\* Tag.objects.filter(name__in = tag_names): exact match on the name.
FilterNameIn(table, tag_names) == {t \in table : t.name \in tag_names}

\* Mutant of NewTagNames: the comparison of the counts is turned around.
NewTagNamesFlipped(tags, tag_names) ==
    IF Cardinality(tags) > Cardinality(tag_names)
    THEN tag_names \ {t.name : t \in tags}
    ELSE {}

\* The names not found: computed only when fewer tags than names came back.
NewTagNames(tags, tag_names) ==
    IF Cardinality(tags) < Cardinality(tag_names)
    THEN tag_names \ {t.name : t \in tags}
    ELSE {}

GetTagsByNames ==
    /\ r_pc = "call"
    /\ LET tags == FilterNameIn(tag_table, r_names)
       IN /\ r_found' = tags
          /\ r_missing' = NewTagNames(tags, r_names)
    /\ r_pc' = "returned"
    /\ UNCHANGED <<regVars, r_names, r_before, wcVars, sepVars, grpVars, uucVars, sugVars>>

(***************************************************************************)
(* tags_match_some_wildcard                                                *)
(***************************************************************************)
WcChars == {"a", "b"}
WcNames == Strings(WcChars, 1, MaxWcLen)
\* The name sets given to the matcher: the empty set and every set of one or two names.
WcNameSets == {{}} \cup {{n1, n2} : n1, n2 \in WcNames}
\* A wildcard is a prefix followed by its one asterisk.
Wildcards == {p \o <<"*">> : p \in Strings(WcChars, 0, MaxWcLen)}

\* Code point order of the characters used, as Python compares strings.
CharCode(c) ==
    CASE c = " " -> 32
      [] c = "*" -> 42
      [] c = "-" -> 45
      [] c = "A" -> 65
      [] c = "a" -> 97
      [] c = "b" -> 98

\* s < t for Python strings.
StrLess(s, t) ==
    \/ /\ Len(s) < Len(t)
       /\ \A i \in 1..Len(s) : s[i] = t[i]
    \/ \E k \in 1..Len(s) :
          /\ k <= Len(t)
          /\ \A i \in 1..(k - 1) : s[i] = t[i]
          /\ CharCode(s[k]) < CharCode(t[k])

\* sorted(S)
Sorted(S) ==
    LET n == Cardinality(S)
    IN CHOOSE f \in [1..n -> S] : \A i, j \in 1..n : i < j => StrLess(f[i], f[j])

\* wildcard_tag[:-1]
ButLast(s) == SubSeq(s, 1, Len(s) - 1)

\* Mutant of WildcardHit: the whole wildcard, asterisk included, is the prefix.
WildcardHitWithStar(tag_name, wildcard_tag) == StartsWith(tag_name, wildcard_tag)

\* tag_name.startswith(wildcard_tag[:-1])
WildcardHit(tag_name, wildcard_tag) == StartsWith(tag_name, ButLast(wildcard_tag))

\* for tag_name in tag_names: the next name, in the set's iteration order.
WcNextName ==
    /\ w_pc = "outer"
    /\ \E n \in w_left :
          /\ w_name' = n
          /\ w_left' = w_left \ {n}
    /\ w_sorted' = Sorted(w_wild)
    /\ w_idx' = 1
    /\ w_pc' = "inner"
    /\ UNCHANGED <<sugVars, uucVars, grpVars, sepVars, regVars, resVars, w_names, w_wild, w_ret>>

\* One pass of the inner loop: return True on a hit, else the next wildcard.
WcTestWildcard ==
    /\ w_pc = "inner"
    /\ w_idx <= Len(w_sorted)
    /\ IF WildcardHit(w_name, w_sorted[w_idx])
       THEN /\ w_ret' = TRUE
            /\ w_pc' = "returned"
            /\ w_idx' = w_idx
       ELSE /\ w_idx' = w_idx + 1
            /\ UNCHANGED <<w_ret, w_pc>>
    /\ UNCHANGED <<sugVars, uucVars, grpVars, sepVars, regVars, resVars, w_names, w_wild, w_left, w_name, w_sorted>>

\* The inner loop ran out of wildcards.
WcInnerDone ==
    /\ w_pc = "inner"
    /\ w_idx > Len(w_sorted)
    /\ w_pc' = "outer"
    /\ UNCHANGED <<sugVars, uucVars, grpVars, sepVars, regVars, resVars, w_names, w_wild, w_left, w_name, w_idx, w_sorted, w_ret>>

\* The outer loop ran out of names: return False.
WcReturnFalse ==
    /\ w_pc = "outer"
    /\ w_left = {}
    /\ w_ret' = FALSE
    /\ w_pc' = "returned"
    /\ UNCHANGED <<sugVars, uucVars, grpVars, sepVars, regVars, resVars, w_names, w_wild, w_left, w_name, w_idx, w_sorted>>

WcIdle ==
    /\ w_pc = "idle"
    /\ w_names = {}
    /\ w_wild = {}
    /\ w_left = {}
    /\ w_name = <<>>
    /\ w_idx = 0
    /\ w_sorted = <<>>
    /\ w_ret = None

(***************************************************************************)
(* separate_unused_tags                                                    *)
(***************************************************************************)
\* Tag objects as a caller may pass them: row i with the use count counts[i].
\* A count below zero is an object that breaks the PositiveIntegerField.
TagObjects(counts) ==
    [i \in 1..Len(counts) |->
        [Tag(i, [j \in 1..i |-> "a"], "u1") EXCEPT !.used_count = counts[i]]]

\* Mutant of IsUnused: tags with a count of zero or less count as unused.
IsUnusedOrLess(tag) == tag.used_count <= 0

\* if tag.used_count == 0
IsUnused(tag) == tag.used_count = 0

\* unused.append(tag)
SepAppendUnused ==
    /\ s_pc = "loop"
    /\ s_i <= Len(s_tags)
    /\ IsUnused(s_tags[s_i])
    /\ s_unused' = Append(s_unused, s_tags[s_i])
    /\ s_i' = s_i + 1
    /\ UNCHANGED <<sugVars, uucVars, grpVars, regVars, resVars, wcVars, s_pc, s_tags, s_used>>

\* assert(tag.used_count > 0) holds; used.append(tag)
SepAppendUsed ==
    /\ s_pc = "loop"
    /\ s_i <= Len(s_tags)
    /\ ~IsUnused(s_tags[s_i])
    /\ s_tags[s_i].used_count > 0
    /\ s_used' = Append(s_used, s_tags[s_i])
    /\ s_i' = s_i + 1
    /\ UNCHANGED <<sugVars, uucVars, grpVars, regVars, resVars, wcVars, s_pc, s_tags, s_unused>>

\* assert(tag.used_count > 0) fails: the call ends in AssertionError.
SepAssertFails ==
    /\ s_pc = "loop"
    /\ s_i <= Len(s_tags)
    /\ ~IsUnused(s_tags[s_i])
    /\ ~(s_tags[s_i].used_count > 0)
    /\ s_pc' = "AssertionError"
    /\ UNCHANGED <<sugVars, uucVars, grpVars, regVars, resVars, wcVars, s_tags, s_i, s_used, s_unused>>

\* return used, unused
SepReturn ==
    /\ s_pc = "loop"
    /\ s_i > Len(s_tags)
    /\ s_pc' = "returned"
    /\ UNCHANGED <<sugVars, uucVars, grpVars, regVars, resVars, wcVars, s_tags, s_i, s_used, s_unused>>

SepIdle ==
    /\ s_pc = "idle"
    /\ s_tags = <<>>
    /\ s_i = 0
    /\ s_used = <<>>
    /\ s_unused = <<>>

(***************************************************************************)
(* clean_group_name and GroupTagManager.get_or_create                      *)
(***************************************************************************)
Procs == {"p1", "p2"}

\* Raw group names: runs of blanks and tabs inside and around the name, a
\* dash already there, and variants in letter case.
RawGroupNames ==
    { <<"a", " ", " ", "B">>,
      <<"A", "-", "b">>,
      <<" ", "a", "\t", "b", " ">>,
      <<"a", " ", "b">>,
      <<"a", "b">>,
      <<"\t", "A", "B">> }

\* What the regular expression \s and str.strip() take for whitespace.
IsSpace(c) == c \in {" ", "\t", "\n", "\r"}

RECURSIVE LStrip(_)
LStrip(s) ==
    IF s = <<>> THEN s
    ELSE IF IsSpace(Head(s)) THEN LStrip(Tail(s)) ELSE s

RECURSIVE RStrip(_)
RStrip(s) ==
    IF s = <<>> THEN s
    ELSE IF IsSpace(s[Len(s)]) THEN RStrip(SubSeq(s, 1, Len(s) - 1)) ELSE s

\* name.strip()
Strip(s) == RStrip(LStrip(s))

\* re.sub('\s+', '-', s): every run of whitespace becomes one dash.
RECURSIVE SubSpaces(_)
SubSpaces(s) ==
    IF s = <<>> THEN <<>>
    ELSE IF IsSpace(Head(s))
         THEN <<"-">> \o SubSpaces(LStrip(s))
         ELSE <<Head(s)>> \o SubSpaces(Tail(s))

clean_group_name(name) == SubSpaces(Strip(name))

LowerChar(c) ==
    CASE c = "A" -> "a"
      [] c = "B" -> "b"
      [] OTHER -> c

\* Case folding, as the iexact lookup compares names.
Lower(s) == [i \in 1..Len(s) |-> LowerChar(s[i])]

\* Mutant of GetIExact: the lookup compares the names exactly.
GetExact(table, group_name) == {t \in table : t.name = group_name}

\* self.get(name__iexact = group_name): the rows the lookup matches.
GetIExact(table, group_name) == {t \in table : Lower(t.name) = Lower(group_name)}

LogEntry(p, outcome, tag, created) ==
    [raw |-> g_raw[p], user |-> g_user[p], outcome |-> outcome,
     tag |-> tag, created |-> created]

\* The call of p ends: with a returned tag, or with the exception raised.
GocEnd(p, outcome, tag, created) ==
    /\ g_log' = Append(g_log, LogEntry(p, outcome, tag, created))
    /\ g_pc' = [g_pc EXCEPT ![p] = "idle"]
    /\ g_tag' = [g_tag EXCEPT ![p] = None]
    /\ g_name' = [g_name EXCEPT ![p] = <<>>]
    /\ g_raw' = [g_raw EXCEPT ![p] = <<>>]
    /\ g_user' = [g_user EXCEPT ![p] = None]

InFlight == Cardinality({p \in Procs : g_pc[p] # "idle"})

\* get_or_create(group_name, user) is entered: group_name = clean_group_name(group_name)
GocCall(p, raw, user) ==
    /\ g_pc[p] = "idle"
    /\ Len(g_log) + InFlight < MaxCalls
    /\ g_raw' = [g_raw EXCEPT ![p] = raw]
    /\ g_user' = [g_user EXCEPT ![p] = user]
    /\ g_name' = [g_name EXCEPT ![p] = clean_group_name(raw)]
    /\ g_pc' = [g_pc EXCEPT ![p] = "get"]
    /\ UNCHANGED <<sugVars, uucVars, regVars, resVars, wcVars, sepVars, group_profiles, g_tag, g_log>>

\* self.get(...) finds the tag, which is returned; with more than one match
\* it raises MultipleObjectsReturned, which nothing catches.
GocGetExisting(p) ==
    /\ g_pc[p] = "get"
    /\ LET found == GetIExact(tag_table, g_name[p])
       IN /\ found # {}
          /\ IF Cardinality(found) = 1
             THEN GocEnd(p, "returned", CHOOSE t \in found : TRUE, FALSE)
             ELSE GocEnd(p, "MultipleObjectsReturned", None, FALSE)
    /\ UNCHANGED <<sugVars, uucVars, regVars, resVars, wcVars, sepVars, group_profiles>>

\* self.get(...) raises DoesNotExist, which is caught: on to the create.
GocGetDoesNotExist(p) ==
    /\ g_pc[p] = "get"
    /\ GetIExact(tag_table, g_name[p]) = {}
    /\ g_pc' = [g_pc EXCEPT ![p] = "save_tag"]
    /\ UNCHANGED <<sugVars, uucVars, regVars, resVars, wcVars, sepVars, group_profiles, g_raw, g_user,
                   g_name, g_tag, g_log>>

\* tag = self.model(name = group_name, created_by = user); tag.save().
\* Tag.name is unique: a row with that very name makes the insert raise
\* IntegrityError, which the except clause (DoesNotExist only) does not catch.
GocSaveTag(p) ==
    /\ g_pc[p] = "save_tag"
    /\ IF \E t \in tag_table : t.name = g_name[p]
       THEN /\ GocEnd(p, "IntegrityError", None, FALSE)
            /\ UNCHANGED tag_table
       ELSE LET tag == Tag(Cardinality(tag_table) + 1, g_name[p], g_user[p])
            IN /\ tag_table' = tag_table \cup {tag}
               /\ g_tag' = [g_tag EXCEPT ![p] = tag]
               /\ g_pc' = [g_pc EXCEPT ![p] = "save_profile"]
               /\ UNCHANGED <<g_name, g_log, g_raw, g_user>>
    /\ UNCHANGED <<sugVars, uucVars, tag_threads, resVars, wcVars, sepVars, group_profiles>>

\* group_profile = GroupProfile(group_tag = tag); group_profile.save(); return tag
GocSaveProfile(p) ==
    /\ g_pc[p] = "save_profile"
    /\ group_profiles' = group_profiles \cup {g_tag[p].id}
    /\ GocEnd(p, "returned", g_tag[p], TRUE)
    /\ UNCHANGED <<sugVars, uucVars, regVars, resVars, wcVars, sepVars>>

\* group_profile.save() fails in the store: the error leaves get_or_create,
\* after tag.save() has stored the tag.
GocSaveProfileFails(p) ==
    /\ g_pc[p] = "save_profile"
    /\ GocEnd(p, "DatabaseError", None, TRUE)
    /\ UNCHANGED <<sugVars, uucVars, regVars, resVars, wcVars, sepVars, group_profiles>>

GrpIdle ==
    /\ group_profiles = {}
    /\ g_pc = [p \in Procs |-> "idle"]
    /\ g_raw = [p \in Procs |-> <<>>]
    /\ g_user = [p \in Procs |-> None]
    /\ g_name = [p \in Procs |-> <<>>]
    /\ g_tag = [p \in Procs |-> None]
    /\ g_log = <<>>

(***************************************************************************)
(* TagQuerySet.update_use_counts and TagQuerySet.mark_undeleted            *)
(***************************************************************************)
TagIds == {1, 2}
DeletedAt == "t1"

\* The row of the table with the primary key id.
Row(table, id) == CHOOSE t \in table : t.id = id

\* tag.threads.count()
ThreadCount(id) == Cardinality({th \in Threads : <<id, th>> \in tag_threads})

\* Sequences of distinct ids: the batches update_use_counts is given.
Batches ==
    {b \in UNION {[1..k -> TagIds] : k \in 1..Cardinality(TagIds)} :
        \A i, j \in 1..Len(b) : b[i] = b[j] => i = j}

\* Mutant of SaveObject: save() writes no column when the row exists.
SaveObjectNothing(table, obj) ==
    IF \E t \in table : t.id = obj.id THEN table ELSE table \cup {obj}

\* tag.save(): every column of the row is written from the object in memory.
SaveObject(table, obj) == {t \in table : t.id # obj.id} \cup {obj}

\* update_use_counts(tags) is called with Tag objects loaded from the table.
UucStart(batch) ==
    /\ u_pc = "idle"
    /\ u_objs' = [i \in 1..Len(batch) |-> Row(tag_table, batch[i])]
    /\ u_i' = 1
    /\ u_pc' = "count"
    /\ u_runs' = 1
    /\ u_loaded' = tag_table
    /\ UNCHANGED <<sugVars, regVars, resVars, wcVars, sepVars, grpVars, u_failures, u_quiet,
                   u_undeleted, u_after>>

\* tag.used_count = tag.threads.count()
UucCount ==
    /\ u_pc = "count"
    /\ u_objs' = [u_objs EXCEPT ![u_i].used_count = ThreadCount(u_objs[u_i].id)]
    /\ u_pc' = "save"
    /\ UNCHANGED <<sugVars, regVars, resVars, wcVars, sepVars, grpVars, u_i, u_runs, u_failures,
                   u_quiet, u_undeleted, u_loaded, u_after>>

\* tag.save(), then the next tag; after the last one the call returns.
UucSave ==
    /\ u_pc = "save"
    /\ tag_table' = SaveObject(tag_table, u_objs[u_i])
    /\ u_i' = u_i + 1
    /\ IF u_i = Len(u_objs)
       THEN /\ u_pc' = "done"
            /\ u_after' = tag_table'
       ELSE /\ u_pc' = "count"
            /\ UNCHANGED u_after
    /\ UNCHANGED <<sugVars, tag_threads, resVars, wcVars, sepVars, grpVars, u_objs, u_runs,
                   u_failures, u_quiet, u_undeleted, u_loaded>>

\* The store fails in tag.threads.count() or in tag.save(): the error leaves
\* update_use_counts at tag u_i, whose row is not written.
UucFail ==
    /\ u_pc \in {"count", "save"}
    /\ u_pc' = "failed"
    /\ u_failures' = u_failures + 1
    /\ UNCHANGED <<sugVars, regVars, resVars, wcVars, sepVars, grpVars, u_objs, u_i, u_runs,
                   u_quiet, u_undeleted, u_loaded, u_after>>

\* update_use_counts is run again over the same objects.
UucRerun ==
    /\ u_pc \in {"done", "failed"}
    /\ u_runs < MaxRuns
    /\ u_runs' = u_runs + 1
    /\ u_i' = 1
    /\ u_pc' = "count"
    /\ UNCHANGED <<sugVars, regVars, resVars, wcVars, sepVars, grpVars, u_objs, u_failures,
                   u_quiet, u_undeleted, u_loaded, u_after>>

\* The deletion marks removed from one row.
Undeleted(t) == [t EXCEPT !.deleted = FALSE, !.deleted_by = None, !.deleted_at = None]

\* mark_undeleted() on the query set of the rows ids: one UPDATE of the three columns.
MarkUndeleted(ids) ==
    /\ u_pc # "idle"
    /\ \E t \in tag_table : t.id \in ids /\ t.deleted
    /\ tag_table' = {IF t.id \in ids THEN Undeleted(t) ELSE t : t \in tag_table}
    /\ u_undeleted' = u_undeleted \cup ids
    /\ UNCHANGED <<sugVars, tag_threads, resVars, wcVars, sepVars, grpVars, u_pc, u_objs, u_i,
                   u_runs, u_failures, u_quiet, u_loaded, u_after>>

\* Content is tagged or untagged elsewhere: a thread joins or leaves a tag.
\* Only the first change after the load is followed: the counts are stated
\* for the runs without one.
ThreadAssociationChanges(id, th) ==
    /\ u_pc # "idle"
    /\ u_quiet
    /\ tag_threads' = IF <<id, th>> \in tag_threads
                      THEN tag_threads \ {<<id, th>>}
                      ELSE tag_threads \cup {<<id, th>>}
    /\ u_quiet' = FALSE
    /\ UNCHANGED <<sugVars, tag_table, resVars, wcVars, sepVars, grpVars, u_pc, u_objs, u_i,
                   u_runs, u_failures, u_undeleted, u_loaded, u_after>>

UucIdle ==
    /\ u_pc = "idle"
    /\ u_objs = <<>>
    /\ u_i = 0
    /\ u_runs = 0
    /\ u_failures = 0
    /\ u_quiet = TRUE
    /\ u_undeleted = {}
    /\ u_loaded = {}
    /\ u_after = {}

(***************************************************************************)
(* SuggestedTagManager.create                                              *)
(***************************************************************************)
SugNames == {<<"a">>, <<"b">>, <<"a", "b">>}

\* SuggestedTag(name = tag_name): used_count starts at 1, no user, no thread.
SuggestedTag(id, name) ==
    [id |-> id, name |-> name, used_count |-> 1, users |-> {}, threads |-> {}]

\* Mutant of AddUserAndThread: the thread is not added to the record.
AddUserOnly(tag, user, thread) == [tag EXCEPT !.users = tag.users \cup {user}]

\* suggested_tag.users.add(user); suggested_tag.threads.add(thread)
AddUserAndThread(tag, user, thread) ==
    [tag EXCEPT !.users = tag.users \cup {user}, !.threads = tag.threads \cup {thread}]

others == <<regVars, resVars, wcVars, sepVars, grpVars, uucVars>>

\* create(tag_names, user, thread) is called.
SugCall(names, user, thread) ==
    /\ m_pc \in {"idle", "returned", "raised"}
    /\ m_calls < MaxSugCalls
    /\ m_calls' = m_calls + 1
    /\ m_names' = names
    /\ m_user' = user
    /\ m_thread' = thread
    /\ m_left' = names
    /\ m_created' = <<>>
    /\ m_mails0' = Len(mails)
    /\ m_before' = sug_table
    /\ m_pc' = "loop"
    /\ UNCHANGED <<others, sug_table, mails, messages>>

\* One pass of the loop: the new record is saved, the user and the thread
\* are added to it, and it joins the list to return.
SugCreateRecord ==
    /\ m_pc = "loop"
    /\ \E n \in m_left :
          /\ ~ \E r \in sug_table : r.name = n
          /\ LET saved == SuggestedTag(Cardinality(sug_table) + 1, n)
                 full == AddUserAndThread(saved, m_user, m_thread)
             IN /\ sug_table' = sug_table \cup {full}
                /\ m_created' = Append(m_created, full)
          /\ m_left' = m_left \ {n}
    /\ UNCHANGED <<others, mails, messages, m_pc, m_names, m_user, m_thread, m_calls,
                   m_mails0, m_before>>

\* suggested_tag.save() for a name that has a record: SuggestedTag.name is
\* unique, the insert raises IntegrityError and the error leaves create.
SugIntegrityError ==
    /\ m_pc = "loop"
    /\ \E n \in m_left : \E r \in sug_table : r.name = n
    /\ m_pc' = "raised"
    /\ UNCHANGED <<others, sug_table, mails, messages, m_names, m_user, m_thread, m_left,
                   m_created, m_calls, m_mails0, m_before>>

\* After the loop: mail.mail_moderators(...) with the body that lists tag_names.
SugNotify ==
    /\ m_pc = "loop"
    /\ m_left = {}
    /\ mails' = Append(mails, [tags |-> m_names, user |-> m_user, thread |-> m_thread])
    /\ m_pc' = "message"
    /\ UNCHANGED <<others, sug_table, messages, m_names, m_user, m_thread, m_left,
                   m_created, m_calls, m_mails0, m_before>>

\* user.message_set.create(message = msg); return suggested_tags
SugMessage ==
    /\ m_pc = "message"
    /\ messages' = Append(messages, [user |-> m_user, tags |-> m_names])
    /\ m_pc' = "returned"
    /\ UNCHANGED <<others, sug_table, mails, m_names, m_user, m_thread, m_left,
                   m_created, m_calls, m_mails0, m_before>>

SugIdle ==
    /\ sug_table = {}
    /\ mails = <<>>
    /\ messages = <<>>
    /\ m_pc = "idle"
    /\ m_names = {}
    /\ m_user = None
    /\ m_thread = None
    /\ m_left = {}
    /\ m_created = <<>>
    /\ m_calls = 0
    /\ m_mails0 = 0
    /\ m_before = {}

ResIdle ==
    /\ r_pc = "idle"
    /\ r_names = {}
    /\ r_found = {}
    /\ r_missing = {}
    /\ r_before = {}

InitResolve ==
    /\ tag_table \in {TableOfNames(S) : S \in SubsetsUpTo(RegNames, MaxTags)}
    /\ tag_threads = {}
    /\ r_pc = "call"
    /\ r_names \in SubsetsUpTo(RegNames, MaxReq)
    /\ r_found = {}
    /\ r_missing = {}
    /\ r_before = tag_table
    /\ WcIdle
    /\ SepIdle
    /\ GrpIdle
    /\ UucIdle
    /\ SugIdle

NextResolve == GetTagsByNames

SpecResolve == InitResolve /\ [][NextResolve]_vars

InitWildcard ==
    /\ tag_table = {}
    /\ tag_threads = {}
    /\ ResIdle
    /\ w_pc = "outer"
    /\ w_names \in WcNameSets
    /\ w_wild \in SubsetsUpTo(Wildcards, MaxWild)
    /\ w_left = w_names
    /\ w_name = <<>>
    /\ w_idx = 0
    /\ w_sorted = <<>>
    /\ w_ret = None
    /\ SepIdle
    /\ GrpIdle
    /\ UucIdle
    /\ SugIdle

NextWildcard ==
    \/ WcNextName
    \/ WcTestWildcard
    \/ WcInnerDone
    \/ WcReturnFalse

SpecWildcard == InitWildcard /\ [][NextWildcard]_vars

\* C5: tags_match_some_wildcard(N, W) returns true if and only if some name
\* of N starts with the prefix (the wildcard without its last character) of
\* some wildcard of W; with W empty it returns false for every N.
C5_MatchIffSomePrefix ==
    w_pc = "returned" =>
        /\ w_ret \in BOOLEAN
        /\ w_ret <=> \E n \in w_names : \E w \in w_wild :
                        /\ Len(w) - 1 <= Len(n)
                        /\ \A i \in 1..(Len(w) - 1) : n[i] = w[i]
        /\ w_wild = {} => w_ret = FALSE

\* A call that returned true although its first name tested matched nothing,
\* with more than one wildcard to go through.
C5_Witness ==
    /\ w_pc = "returned"
    /\ w_ret = TRUE
    /\ Cardinality(w_wild) > 1
    /\ Cardinality(w_names) > 1
    /\ w_left = {}
    /\ w_idx > 1

InitSeparate ==
    /\ tag_table = {}
    /\ tag_threads = {}
    /\ ResIdle
    /\ WcIdle
    /\ s_pc = "loop"
    /\ s_tags \in {TagObjects(c) : c \in UNION {[1..k -> -1..MaxCount] : k \in 0..MaxSepLen}}
    /\ s_i = 1
    /\ s_used = <<>>
    /\ s_unused = <<>>
    /\ GrpIdle
    /\ UucIdle
    /\ SugIdle

NextSeparate ==
    \/ SepAppendUnused
    \/ SepAppendUsed
    \/ SepAssertFails
    \/ SepReturn

SpecSeparate == InitSeparate /\ [][NextSeparate]_vars

Positive(tag) == tag.used_count > 0
Zero(tag) == tag.used_count = 0
Range(seq) == {seq[i] : i \in 1..Len(seq)}

\* C6: for tags with used_count >= 0, separate_unused_tags returns (used,
\* unused) where every tag of used has used_count > 0, every tag of unused
\* has used_count = 0, each input tag is exactly once in exactly one of the
\* two lists and each list keeps the input order; a tag with used_count < 0
\* ends the call in its assertion, and the call returns nothing.
C6_SeparatePartition ==
    /\ s_pc = "returned" =>
          /\ \A i \in 1..Len(s_tags) : s_tags[i].used_count >= 0
          /\ \A i \in 1..Len(s_used) : s_used[i].used_count > 0
          /\ \A i \in 1..Len(s_unused) : s_unused[i].used_count = 0
          /\ Range(s_used) \cap Range(s_unused) = {}
          /\ Range(s_used) \cup Range(s_unused) = Range(s_tags)
          /\ Len(s_used) + Len(s_unused) = Len(s_tags)
          /\ s_used = SelectSeq(s_tags, Positive)
          /\ s_unused = SelectSeq(s_tags, Zero)
    /\ s_pc = "AssertionError" => s_tags[s_i].used_count < 0
    /\ (\A i \in 1..Len(s_tags) : s_tags[i].used_count >= 0) => s_pc # "AssertionError"

\* A call that returned both lists with more than one tag in one of them.
C6_Witness ==
    /\ s_pc = "returned"
    /\ Len(s_used) > 1
    /\ Len(s_unused) > 0
    /\ s_tags[1].used_count = 0

\* A call that met a negative count after it had filled both lists.
C6_WitnessAssert ==
    /\ s_pc = "AssertionError"
    /\ s_i = 3

InitGroup ==
    /\ tag_table = {}
    /\ tag_threads = {}
    /\ ResIdle
    /\ WcIdle
    /\ SepIdle
    /\ GrpIdle
    /\ UucIdle
    /\ SugIdle

\* No caller other than p is inside get_or_create.
Alone(p) == \A q \in Procs \ {p} : g_pc[q] = "idle"

\* Calls that do not overlap: a caller moves only while no other is in a call.
NextGroupSeq ==
    \/ \E p \in Procs, raw \in RawGroupNames, user \in Users : Alone(p) /\ GocCall(p, raw, user)
    \/ \E p \in Procs : Alone(p) /\ GocGetExisting(p)
    \/ \E p \in Procs : Alone(p) /\ GocGetDoesNotExist(p)
    \/ \E p \in Procs : Alone(p) /\ GocSaveTag(p)
    \/ \E p \in Procs : Alone(p) /\ GocSaveProfile(p)
    \/ \E p \in Procs : Alone(p) /\ GocSaveProfileFails(p)

SpecGroupSeq == InitGroup /\ [][NextGroupSeq]_vars

\* Concurrent callers: the steps of the calls interleave.
NextGroupConc ==
    \/ \E p \in Procs, raw \in RawGroupNames, user \in Users : GocCall(p, raw, user)
    \/ \E p \in Procs : GocGetExisting(p)
    \/ \E p \in Procs : GocGetDoesNotExist(p)
    \/ \E p \in Procs : GocSaveTag(p)
    \/ \E p \in Procs : GocSaveProfile(p)
    \/ \E p \in Procs : GocSaveProfileFails(p)

SpecGroupConc == InitGroup /\ [][NextGroupConc]_vars

\* Two raw names name the same group: equal after normalisation, ignoring case.
SameGroup(raw1, raw2) == Lower(clean_group_name(raw1)) = Lower(clean_group_name(raw2))

\* The first call of the log for the group of call j.
FirstCallFor(j) ==
    CHOOSE i \in 1..j :
        /\ SameGroup(g_log[i].raw, g_log[j].raw)
        /\ \A k \in 1..(i - 1) : ~SameGroup(g_log[k].raw, g_log[j].raw)

\* C2: over calls of get_or_create that do not overlap, calls whose raw names
\* normalise to names equal ignoring case return the same Tag; only the first
\* of them creates a tag, named by the first call's normalised name and owned
\* by its user; no two tags of the table differ only by letter case.
C2_OneTagPerGroupName ==
    /\ \A j \in 1..Len(g_log) :
          LET first == g_log[FirstCallFor(j)]
          IN /\ first.created
             /\ FirstCallFor(j) < j =>
                   /\ ~g_log[j].created
                   /\ g_log[j].outcome = "returned"
             /\ g_log[j].outcome = "returned" =>
                   /\ g_log[j].tag \in tag_table
                   /\ g_log[j].tag.name = clean_group_name(first.raw)
                   /\ g_log[j].tag.created_by = first.user
    /\ \A i, j \in 1..Len(g_log) :
          (/\ SameGroup(g_log[i].raw, g_log[j].raw)
           /\ g_log[i].outcome = "returned"
           /\ g_log[j].outcome = "returned") => g_log[i].tag = g_log[j].tag
    /\ \A t1, t2 \in tag_table : Lower(t1.name) = Lower(t2.name) => t1 = t2

\* Two calls returned one tag for names that differ in case and in their
\* whitespace, the second called by another user.
C2_Witness ==
    /\ Len(g_log) >= 2
    /\ g_log[1].outcome = "returned"
    /\ g_log[2].outcome = "returned"
    /\ g_log[1].tag = g_log[2].tag
    /\ g_log[1].user # g_log[2].user
    /\ clean_group_name(g_log[1].raw) # clean_group_name(g_log[2].raw)
    /\ g_log[1].raw = <<"a", " ", " ", "B">>

\* C3: when two callers race on one group name and both find it absent, the
\* caller whose create breaks the uniqueness of the name re-fetches and
\* returns the tag the other created: no call ends in the integrity error,
\* and the calls for one name that ended hold the same Tag.
C3_RaceResolvedByRefetch ==
    /\ \A j \in 1..Len(g_log) : g_log[j].outcome # "IntegrityError"
    /\ \A i, j \in 1..Len(g_log) :
          (/\ clean_group_name(g_log[i].raw) = clean_group_name(g_log[j].raw)
           /\ g_log[i].created
           /\ g_log[i].outcome = "returned") =>
              /\ g_log[j].outcome = "returned"
              /\ g_log[j].tag = g_log[i].tag

\* C4: the group tag and its profile are created as one unit: a failure of
\* the profile's creation reaches the caller, and no call returns as success
\* a tag that has no group profile.
C4_NoOrphanReturned ==
    \A j \in 1..Len(g_log) :
        g_log[j].outcome = "returned" => g_log[j].tag.id \in group_profiles

\* A stored row: the use count may be stale; a deleted row carries all three marks.
StoredTag(id, count, deleted) ==
    [Tag(id, [j \in 1..id |-> "a"], "u1") EXCEPT
        !.used_count = count,
        !.deleted = deleted,
        !.deleted_at = IF deleted THEN DeletedAt ELSE None,
        !.deleted_by = IF deleted THEN "u2" ELSE None]

InitReconcile ==
    /\ \E c \in [TagIds -> 0..Cardinality(Threads)], d \in [TagIds -> BOOLEAN] :
          tag_table = {StoredTag(id, c[id], d[id]) : id \in TagIds}
    /\ tag_threads \in SUBSET (TagIds \X Threads)
    /\ ResIdle
    /\ WcIdle
    /\ SepIdle
    /\ GrpIdle
    /\ UucIdle
    /\ SugIdle

NextReconcile ==
    \/ \E batch \in Batches : UucStart(batch)
    \/ UucCount
    \/ UucSave
    \/ UucFail
    \/ UucRerun
    \/ \E ids \in SUBSET TagIds : MarkUndeleted(ids)
    \/ \E id \in TagIds, th \in Threads : ThreadAssociationChanges(id, th)

SpecReconcile == InitReconcile /\ [][NextReconcile]_vars

BatchIds == {u_objs[i].id : i \in 1..Len(u_objs)}

\* The use counts of a table, by id.
UsedCounts(table) == [id \in TagIds |-> Row(table, id).used_count]

\* The table update_use_counts is to leave: the loaded rows, the batch's
\* counts refreshed, and the rows restored meanwhile without their marks.
Refreshed(table) ==
    {LET r == IF t.id \in u_undeleted THEN Undeleted(t) ELSE t
     IN IF t.id \in BatchIds THEN [r EXCEPT !.used_count = ThreadCount(t.id)] ELSE r
     : t \in table}

\* C7: when update_use_counts completes and no thread association changed
\* meanwhile, every tag of the batch has the stored used_count of the threads
\* associated with it (and the other tags the count they had); a run over the
\* batch after a completed one changes nothing; when a run fails at a tag,
\* the tags before it keep their refreshed counts, and the run after it ends
\* in the state an uninterrupted run ends in.
C7_CountsReconciled ==
    /\ (u_pc = "done" /\ u_quiet) =>
          /\ \A id \in BatchIds : Row(tag_table, id).used_count = ThreadCount(id)
          /\ UsedCounts(tag_table) = UsedCounts(Refreshed(u_loaded))
          /\ u_undeleted = {} => tag_table = Refreshed(u_loaded)
    /\ (u_after # {} /\ u_quiet) =>
          /\ UsedCounts(tag_table) = UsedCounts(u_after)
          /\ u_undeleted = {} => tag_table = u_after
    /\ (u_pc = "failed" /\ u_quiet) =>
          \A j \in 1..(u_i - 1) :
              Row(tag_table, u_objs[j].id).used_count = ThreadCount(u_objs[j].id)

\* A second run completed, after a first one that failed past its first tag,
\* over a batch of two tags whose stored counts were both stale.
C7_Witness ==
    /\ u_pc = "done"
    /\ u_quiet
    /\ u_runs = 2
    /\ u_failures = 1
    /\ Len(u_objs) = 2
    /\ \A id \in TagIds : Row(u_loaded, id).used_count # ThreadCount(id)

\* C10: update_use_counts changes only the used_count of the tags of its
\* batch: every other column of every row, and the used_count of the rows
\* outside the batch, stay as they were, and the marks mark_undeleted removed
\* after the objects were loaded stay removed.
C10_OnlyUsedCountChanges ==
    u_pc # "idle" =>
        \A t \in tag_table :
            LET before == Row(u_loaded, t.id)
                kept == IF t.id \in u_undeleted THEN Undeleted(before) ELSE before
            IN /\ t.name = kept.name
               /\ t.created_by = kept.created_by
               /\ t.deleted = kept.deleted
               /\ t.deleted_at = kept.deleted_at
               /\ t.deleted_by = kept.deleted_by
               /\ t.id \notin BatchIds => t.used_count = kept.used_count

InitSuggest ==
    /\ tag_table = {}
    /\ tag_threads = {}
    /\ ResIdle
    /\ WcIdle
    /\ SepIdle
    /\ GrpIdle
    /\ UucIdle
    /\ SugIdle

NextSuggest ==
    \/ \E names \in SUBSET SugNames, user \in Users, thread \in Threads :
          SugCall(names, user, thread)
    \/ SugCreateRecord
    \/ SugIntegrityError
    \/ SugNotify
    \/ SugMessage

SpecSuggest == InitSuggest /\ [][NextSuggest]_vars

\* The call created one record per name, each with the caller's user and thread.
CreatedOnePerName ==
    /\ Len(m_created) = Cardinality(m_names)
    /\ \A n \in m_names :
          \E i \in 1..Len(m_created) :
              /\ m_created[i].name = n
              /\ m_created[i] \in sug_table
              /\ m_created[i].users = {m_user}
              /\ m_created[i].threads = {m_thread}

FreshNames == \A n \in m_names : ~ \E b \in m_before : b.name = n

C9_RepeatedSuggestionAccumulates ==
    /\ \A r1, r2 \in sug_table : r1.name = r2.name => r1 = r2
    /\ m_pc \in {"returned", "raised"} =>
          \A n \in m_names :
              (\E b \in m_before : b.name = n) =>
                  \E r \in sug_table :
                      /\ r.name = n
                      /\ m_user \in r.users
                      /\ m_thread \in r.threads

=============================================================================
